---- MODULE Spec2Model ----
(***************************************************************************)
(* Model of the marketplace scoring pipeline: eigenvector centrality       *)
(* (src/src/ec.rs), graph value (src/src/graph.rs), reputation update      *)
(* (src/src/reputation.rs) and the driver (src/src/main.rs).               *)
(*                                                                         *)
(* Numbers.  The program computes in f64.  The model computes in exact     *)
(* decimal-scaled rationals: a number is a triple <<n, d, e>> standing for *)
(* (n / d) * 10^e, with d > 0.  The exponent lets values next to the       *)
(* program's 1e-15 guards (a few units of 1e-16) live beside values of     *)
(* ordinary size without leaving the 32-bit integers of TLC.               *)
(* Rounding, overflow to infinity, underflow to zero and NaN of f64 are    *)
(* not modelled: every arithmetic step is exact.                           *)
(***************************************************************************)
EXTENDS Integers, Sequences, FiniteSets, TLC

VARIABLES
    call,            \* pure-function call in progress: a record, fn + arguments
    returned,        \* whether the call has returned
    ret,             \* value returned by the call
    matrix,          \* power_iteration: its argument
    matrix_squared,  \* power_iteration: the square of its argument
    x,               \* power_iteration: the iterate
    iterations,      \* power_iteration: passes of the for loop begun so far
    pc,              \* power_iteration: "loop", "return" or "done"; else "idle"
    ec,              \* main: raw centrality of the five nodes
    norm_ec,         \* main: normalize_ec(ec)
    reputations,     \* main: reputation of each node
    tx_counts,       \* main: ratings received by each node
    stage,           \* main: transactions carried out, 0..3; -1 outside main
    log              \* the rating events applied so far, in order

callVars == <<call, returned, ret>>

powerVars == <<matrix, matrix_squared, x, iterations, pc>>

mainVars == <<ec, norm_ec, reputations, tx_counts, stage, log>>

vars ==
    <<call, returned, ret, matrix, matrix_squared, x, iterations, pc,
      ec, norm_ec, reputations, tx_counts, stage, log>>

(***************************************************************************)
(* Exact arithmetic standing for the f64 operators of the source.          *)
(***************************************************************************)
IAbs(k) == IF k < 0 THEN -k ELSE k

IMin(a, b) == IF a < b THEN a ELSE b

RECURSIVE Gcd(_, _)
Gcd(a, b) == IF b = 0 THEN a ELSE Gcd(b, a % b)

RECURSIVE Pow10(_)
Pow10(k) == IF k = 0 THEN 1 ELSE 10 * Pow10(k - 1)

\* (n / d) * 10^e in lowest terms with a positive denominator; zero is <<0,1,0>>
Q(n, d, e) ==
    IF n = 0 THEN <<0, 1, 0>>
    ELSE LET g == Gcd(IAbs(n), IAbs(d))
             s == IF d < 0 THEN -1 ELSE 1
         IN  <<(s * n) \div g, IAbs(d) \div g, e>>

Zero == Q(0, 1, 0)
One == Q(1, 1, 0)
Two == Q(2, 1, 0)
Half == Q(1, 2, 0)

\* an integer as a float (`as f64`, and the float literals of the source)
F(k) == Q(k, 1, 0)

\* a + b
QAdd(a, b) ==
    IF a[1] = 0 THEN b
    ELSE IF b[1] = 0 THEN a
    ELSE LET e == IMin(a[3], b[3])
             na == a[1] * Pow10(a[3] - e)
             nb == b[1] * Pow10(b[3] - e)
         IN  Q(na * b[2] + nb * a[2], a[2] * b[2], e)

QNeg(a) == Q(-a[1], a[2], a[3])

\* a - b
QSub(a, b) == QAdd(a, QNeg(b))

\* a * b
QMul(a, b) == Q(a[1] * b[1], a[2] * b[2], a[3] + b[3])

\* a / b, for b # 0
QDiv(a, b) == Q(a[1] * b[2], a[2] * b[1], a[3] - b[3])

\* f64::abs
QAbs(a) == Q(IAbs(a[1]), a[2], a[3])

\* l * 10^k < r and l * 10^k <= r for l, r > 0 and k >= 0, without leaving
\* the integers: once l exceeds r no power of ten brings it back
RECURSIVE ScaledLt(_, _, _)
ScaledLt(l, k, r) ==
    IF k = 0 THEN l < r
    ELSE IF l >= r THEN FALSE
    ELSE ScaledLt(10 * l, k - 1, r)

RECURSIVE ScaledLe(_, _, _)
ScaledLe(l, k, r) ==
    IF k = 0 THEN l <= r
    ELSE IF l > r THEN FALSE
    ELSE ScaledLe(10 * l, k - 1, r)

\* a < b for a, b > 0
PosLt(a, b) ==
    LET l == a[1] * b[2]
        r == b[1] * a[2]
        k == a[3] - b[3]
    IN  IF k >= 0 THEN ScaledLt(l, k, r) ELSE ~ScaledLe(r, -k, l)

\* a < b
QLt(a, b) ==
    IF a[1] < 0
    THEN IF b[1] >= 0 THEN TRUE ELSE PosLt(QNeg(b), QNeg(a))
    ELSE IF a[1] = 0 THEN b[1] > 0
    ELSE IF b[1] <= 0 THEN FALSE ELSE PosLt(a, b)

\* a <= b
QLe(a, b) == ~QLt(b, a)

\* a == b
QEq(a, b) == ~QLt(a, b) /\ ~QLt(b, a)

\* f64::max
QMax(a, b) == IF QLt(a, b) THEN b ELSE a

\* the literal 1e-15 of the guards
Eps15 == Q(1, 1, -15)

\* sum of a sequence of floats, left to right from 0.0 (Iterator::sum)
RECURSIVE QSum(_)
QSum(s) == IF s = <<>> THEN Zero ELSE QAdd(QSum(SubSeq(s, 1, Len(s) - 1)), s[Len(s)])

\* exact square root of a non-negative integer; defined on perfect squares only
ISqrt(n) == CHOOSE k \in 0..n : k * k = n

IsSquare(n) == \E k \in 0..n : k * k = n

\* whether a is the square of a rational of the model
QIsSquare(a) == a[1] >= 0 /\ a[3] % 2 = 0 /\ IsSquare(a[1]) /\ IsSquare(a[2])

\* f64::powf(b, p) for b > 0: exact for p = 0, p = 1, and for p = 1/2 on the
\* squares of rationals; the model calls it on no other argument
QPowDefined(b, p) == QEq(p, Zero) \/ QEq(p, One) \/ (QEq(p, Half) /\ QIsSquare(b))

powf(b, p) ==
    IF QEq(p, Zero) THEN One
    ELSE IF QEq(p, One) THEN b
    ELSE IF QEq(p, Half) /\ QIsSquare(b) THEN Q(ISqrt(b[1]), ISqrt(b[2]), b[3] \div 2)
    ELSE CHOOSE v \in {} : TRUE

(***************************************************************************)
(* src/src/reputation.rs                                                   *)
(***************************************************************************)
\* a minimum reputation of zero
R_MIN_zero == Q(0, 1, 0)

R_MIN == Q(1, 10, 0)

R_MAX == Q(5, 1, 0)

\* f64::clamp(min, max)
clamp(v, lo, hi) == IF QLt(v, lo) THEN lo ELSE IF QLt(hi, v) THEN hi ELSE v

clamp_rating(rating) == clamp(rating, R_MIN, R_MAX)

\* update_reputation with the clamp of the rating left out
update_reputation_unclamped(current_reputation, num_transactions, reviewer_graph_value, rating) ==
    LET n == F(num_transactions)
        numerator == QAdd(QMul(n, current_reputation), QMul(reviewer_graph_value, rating))
        denominator == QAdd(n, One)
    IN  IF QLt(denominator, Eps15) THEN current_reputation
        ELSE QDiv(numerator, denominator)

update_reputation(current_reputation, num_transactions, reviewer_graph_value, rating) ==
    LET rating_c == clamp_rating(rating)
        n == F(num_transactions)
        numerator == QAdd(QMul(n, current_reputation), QMul(reviewer_graph_value, rating_c))
        denominator == QAdd(n, One)
    IN  IF QLt(denominator, Eps15) THEN current_reputation
        ELSE QDiv(numerator, denominator)

\* mutual_update with each party weighted by its own graph value
mutual_update_own_weight(producer_rep, producer_tx_count, producer_graph_value, producer_rates_buyer, buyer_rep, buyer_tx_count, buyer_graph_value, buyer_rates_producer) ==
    <<update_reputation(producer_rep, producer_tx_count, producer_graph_value,
                        buyer_rates_producer),
      update_reputation(buyer_rep, buyer_tx_count, buyer_graph_value,
                        producer_rates_buyer)>>

mutual_update(producer_rep, producer_tx_count, producer_graph_value, producer_rates_buyer, buyer_rep, buyer_tx_count, buyer_graph_value, buyer_rates_producer) ==
    LET new_producer_rep ==
            update_reputation(producer_rep, producer_tx_count, buyer_graph_value,
                              buyer_rates_producer)
        new_buyer_rep ==
            update_reputation(buyer_rep, buyer_tx_count, producer_graph_value,
                              producer_rates_buyer)
    IN  <<new_producer_rep, new_buyer_rep>>

(***************************************************************************)
(* src/src/graph.rs                                                        *)
(***************************************************************************)
graph_value_guard(total_weight_v, raw_ec, reputation) ==
    QLe(total_weight_v, Zero) \/ QLe(raw_ec, Zero) \/ QLe(reputation, Zero)

\* graph_value with the two exponents exchanged
graph_value_swapped(total_weight_v, normalized_ec, raw_ec, reputation) ==
    IF graph_value_guard(total_weight_v, raw_ec, reputation) THEN Zero
    ELSE QMul(QMul(powf(total_weight_v, QSub(One, normalized_ec)),
                   powf(raw_ec, normalized_ec)), reputation)

graph_value(total_weight_v, normalized_ec, raw_ec, reputation) ==
    IF graph_value_guard(total_weight_v, raw_ec, reputation) THEN Zero
    ELSE LET weight_term == powf(total_weight_v, normalized_ec)
             ec_term == powf(raw_ec, QSub(One, normalized_ec))
         IN  QMul(QMul(weight_term, ec_term), reputation)

\* weights[node].iter().sum(); nodes are numbered from 0, sequences from 1
total_weight(weights, node) == QSum(weights[node + 1])

\* normalize_graph_values with the guard total <= 1e-15
normalize_graph_values_le(gvs) ==
    LET total == QSum([k \in 1..Len(gvs) |-> gvs[k][2]])
    IN  IF QLe(total, Eps15)
        THEN [k \in 1..Len(gvs) |-> <<gvs[k][1], Zero>>]
        ELSE [k \in 1..Len(gvs) |-> <<gvs[k][1], QDiv(gvs[k][2], total)>>]

normalize_graph_values(gvs) ==
    LET total == QSum([k \in 1..Len(gvs) |-> gvs[k][2]])
    IN  IF QLt(total, Eps15)
        THEN [k \in 1..Len(gvs) |-> <<gvs[k][1], Zero>>]
        ELSE [k \in 1..Len(gvs) |-> <<gvs[k][1], QDiv(gvs[k][2], total)>>]

\* performance_multiplier without the final max(0.0)
performance_multiplier_unfloored(delta_g, delta_w, average_ratio) ==
    IF QLt(QAbs(delta_w), Eps15) THEN Zero
    ELSE LET user_ratio == QDiv(delta_g, delta_w)
             denominator == QAdd(QAbs(user_ratio), QAbs(average_ratio))
         IN  IF QLt(denominator, Eps15) THEN One
             ELSE QAdd(One, QDiv(QMul(Two, QSub(user_ratio, average_ratio)), denominator))

performance_multiplier(delta_g, delta_w, average_ratio) ==
    IF QLt(QAbs(delta_w), Eps15) THEN Zero
    ELSE LET user_ratio == QDiv(delta_g, delta_w)
             numerator == QSub(user_ratio, average_ratio)
             denominator == QAdd(QAbs(user_ratio), QAbs(average_ratio))
         IN  IF QLt(denominator, Eps15) THEN One
             ELSE LET b_u == QDiv(QMul(Two, numerator), denominator)
                  IN  QMax(QAdd(One, b_u), Zero)

(***************************************************************************)
(* src/src/ec.rs: normalize_ec                                             *)
(***************************************************************************)
\* ec.iter().cloned().fold(0.0_f64, f64::max)
RECURSIVE fold_max(_, _)
fold_max(acc, s) == IF s = <<>> THEN acc ELSE fold_max(QMax(acc, Head(s)), Tail(s))

\* normalize_ec guarding only against a maximum of zero
normalize_ec_zero_guard(ec_v) ==
    LET x_max == fold_max(Zero, ec_v)
    IN  IF QLe(x_max, Zero) THEN ec_v
        ELSE [k \in 1..Len(ec_v) |-> QDiv(ec_v[k], x_max)]

normalize_ec(ec_v) ==
    LET x_max == fold_max(Zero, ec_v)
    IN  IF QLt(x_max, Eps15) THEN ec_v
        ELSE [k \in 1..Len(ec_v) |-> QDiv(ec_v[k], x_max)]

(***************************************************************************)
(* src/src/ec.rs: power_iteration, one action per pass of its loop.        *)
(*                                                                         *)
(* The L2 norm is irrational in general, so the iterate is kept as a       *)
(* record [v, unit] over an integer vector v: it stands for v itself when  *)
(* unit is FALSE (the initial [1.0; N]) and for v / |v| when unit is TRUE  *)
(* (after the division by the norm).  The matrices have integer entries.   *)
(* The two comparisons of the loop are decided exactly on squares:         *)
(* norm < 1e-15 iff norm^2 < 1e-30, and diff < 1e-10 iff diff^2 < 1e-20.   *)
(***************************************************************************)
\* no pure-function call in progress
NoCall == call = [fn |-> "none"] /\ returned = FALSE /\ ret = <<>>

\* power_iteration not running
NoPowerIteration ==
    matrix = <<>> /\ matrix_squared = <<>> /\ x = <<>> /\ iterations = 0 /\ pc = "idle"

\* main not running
NoMain ==
    /\ ec = <<>> /\ norm_ec = <<>> /\ reputations = <<>> /\ tx_counts = <<>>
    /\ stage = -1 /\ log = <<>>

MaxLen == 3

\* a loop bound one too high
MaxIterOffByOne == 1000 + 1

MaxIter == 1000

\* a[1] * b[1] + ... + a[k] * b[k]
RECURSIVE DotTo(_, _, _)
DotTo(a, b, k) == IF k = 0 THEN 0 ELSE DotTo(a, b, k - 1) + a[k] * b[k]

Dot(a, b) == DotTo(a, b, Len(a))

\* result[i][j] += matrix[i][k] * matrix[k][j]
square_matrix(m) ==
    [i \in 1..Len(m) |-> [j \in 1..Len(m) |->
        Dot(m[i], [k \in 1..Len(m) |-> m[k][j]])]]

\* x_new[i] += matrix_squared[i][j] * x[j], on the integer vector of x
times(m2, v) == [i \in 1..Len(m2) |-> Dot(m2[i], v)]

\* |x|^2: the squared length of the vector the record stands for
SquaredLength(it) == IF it.unit THEN 1 ELSE Dot(it.v, it.v)

\* norm < 1e-15, for x_new = matrix_squared * x: norm^2 is
\* |w|^2 * |x|^2 / |v|^2 with w = matrix_squared * v
norm_small(m2, it) ==
    LET w == times(m2, it.v)
    IN  QLt(Q(Dot(w, w) * SquaredLength(it), Dot(it.v, it.v), 0), Q(1, 1, -30))

\* x_new[i] /= norm
normalized(m2, it) == [v |-> times(m2, it.v), unit |-> TRUE]

\* diff < 1e-10 between x and the unit vector x_new = w / |w|.
\* diff^2 = |x|^2 + 1 - 2 * |x| * c, with c = v.w / (|v| * |w|) the cosine of
\* the angle between them, so diff >= | |x| - 1 |: with |x|^2 an integer,
\* diff < 1e-10 needs |x| = 1.  Then diff^2 = 2 - 2c < 1e-20 needs v.w > 0 and
\* (v.w)^2 > (1 - 1e-20/2)^2 * |v|^2 * |w|^2; these are integers below 1e20, so
\* that holds exactly when (v.w)^2 = |v|^2 * |w|^2, the two vectors parallel.
diff_small(it, new) ==
    /\ SquaredLength(it) = 1
    /\ Dot(it.v, new.v) > 0
    /\ Dot(it.v, new.v) * Dot(it.v, new.v) = Dot(it.v, it.v) * Dot(new.v, new.v)

\* x.map(|v| v.abs())
abs_map(it) == [v |-> [k \in 1..Len(it.v) |-> IAbs(it.v[k])], unit |-> it.unit]

\* let mut x = [1.0; N]
ones(n) == [v |-> [k \in 1..n |-> 1], unit |-> FALSE]

\* a pass of `for _ in 0..1000` begins
InLoop == pc = "loop" /\ iterations < MaxIter

\* if norm < 1e-15 { break; }
NormBreaks == InLoop /\ norm_small(matrix_squared, x)

\* if diff < 1e-10 { break; }
DiffBreaks ==
    /\ InLoop /\ ~norm_small(matrix_squared, x)
    /\ diff_small(x, normalized(matrix_squared, x))

\* neither break: the loop goes on
Continues ==
    /\ InLoop /\ ~norm_small(matrix_squared, x)
    /\ ~diff_small(x, normalized(matrix_squared, x))

\* the range 0..1000 is used up
Exhausted == pc = "loop" /\ iterations >= MaxIter

IterateNormBreak ==
    /\ NormBreaks
    /\ iterations' = iterations + 1
    /\ pc' = "return"
    /\ UNCHANGED <<matrix, matrix_squared, x, callVars, mainVars>>

\* x = x_new; if diff < 1e-10 { break; }
IterateDiffBreak ==
    /\ DiffBreaks
    /\ x' = normalized(matrix_squared, x)
    /\ iterations' = iterations + 1
    /\ pc' = "return"
    /\ UNCHANGED <<matrix, matrix_squared, callVars, mainVars>>

\* x = x_new; and the next pass
IterateContinue ==
    /\ Continues
    /\ x' = normalized(matrix_squared, x)
    /\ iterations' = iterations + 1
    /\ UNCHANGED <<matrix, matrix_squared, pc, callVars, mainVars>>

LoopExhausted ==
    /\ Exhausted
    /\ pc' = "return"
    /\ UNCHANGED <<matrix, matrix_squared, x, iterations, callVars, mainVars>>

\* x.map(|v| v.abs())
ReturnEc ==
    /\ pc = "return"
    /\ x' = abs_map(x)
    /\ pc' = "done"
    /\ UNCHANGED <<matrix, matrix_squared, iterations, callVars, mainVars>>

\* rows with at most one entry of -1 or 1, no two in the same column
PowerMatrices ==
    LET n == MaxLen
        Places == {p \in [1..n -> 0..n] :
                      \A i, j \in 1..n : (i # j /\ p[i] # 0) => p[i] # p[j]}
        Signs == [1..n -> {-1, 1}]
    IN  {[i \in 1..n |-> [j \in 1..n |-> IF p[i] = j THEN s[i] ELSE 0]] :
            p \in Places, s \in Signs}

InitPower ==
    /\ matrix \in PowerMatrices
    /\ matrix_squared = square_matrix(matrix)
    /\ x = ones(Len(matrix))
    /\ iterations = 0
    /\ pc = "loop"
    /\ NoCall /\ NoMain

NextPower ==
    \/ IterateNormBreak
    \/ IterateDiffBreak
    \/ IterateContinue
    \/ LoopExhausted
    \/ ReturnEc

SpecPower == InitPower /\ [][NextPower]_vars

(***************************************************************************)
(* Calls of the pure functions.  Init draws one call from bounded sets of  *)
(* arguments; the action of the called function computes its result.       *)
(***************************************************************************)
MaxCount == 2

MaxTiny == 12

\* k units of 1e-16: the values around the 1e-15 guards
Tiny(k) == Q(k, 1, -16)

\* sequences over S of length lo..hi
SeqsOf(S, lo, hi) == UNION {[1..k -> S] : k \in lo..hi}

Counts == 0..MaxCount

RepValues == {R_MIN, One, F(3)}

GvValues == {Zero, Half, One, Two}

RatingValues == {F(-1), R_MIN, One, R_MAX, F(7)}

UpdateCalls ==
    [fn : {"update_reputation"}, current_reputation : RepValues,
     num_transactions : Counts, reviewer_graph_value : GvValues, rating : RatingValues]

MutualRatings == {Zero, F(3), F(7)}

MutualGvs == {Zero, Half, Two}

MutualCalls ==
    [fn : {"mutual_update"},
     producer_rep : RepValues, producer_tx_count : Counts,
     producer_graph_value : MutualGvs, producer_rates_buyer : MutualRatings,
     buyer_rep : RepValues, buyer_tx_count : Counts,
     buyer_graph_value : MutualGvs, buyer_rates_producer : MutualRatings]

GvWeights == {F(-1), Zero, Q(1, 4, 0), One, Two, F(4)}

GvExponents == {Zero, Q(3, 10, 0), Half, One}

GvCentralities == {F(-1), Zero, Q(1, 4, 0), One, Two}

GvReputations == {F(-1), Zero, R_MIN, One, R_MAX}

\* powf is reached only behind the guard, so any exponent may accompany a
\* non-positive argument; otherwise the call stays where powf is exact
GraphValueCalls ==
    {c \in [fn : {"graph_value"}, total_weight : GvWeights, normalized_ec : GvExponents,
            raw_ec : GvCentralities, reputation : GvReputations] :
        \/ graph_value_guard(c.total_weight, c.raw_ec, c.reputation)
        \/ /\ QPowDefined(c.total_weight, c.normalized_ec)
           /\ QPowDefined(c.raw_ec, QSub(One, c.normalized_ec))}

TinyValues == {Tiny(k) : k \in -MaxTiny..MaxTiny}

PerfValues == {F(-1), Zero, Half, One, Two}

\* ordinary deltas; deltas near the guard on delta_w; ratios near the guard
\* on the denominator
PerformanceCalls ==
    [fn : {"performance_multiplier"}, delta_g : PerfValues, delta_w : PerfValues,
     average_ratio : PerfValues]
    \cup [fn : {"performance_multiplier"}, delta_g : {Tiny(-20), Zero, Tiny(10)},
          delta_w : {Tiny(-5), Tiny(5), Tiny(9), Tiny(10), Tiny(20)},
          average_ratio : PerfValues]
    \cup [fn : {"performance_multiplier"}, delta_g : TinyValues, delta_w : {One, Two},
          average_ratio : TinyValues]

EcEntries == {F(-1), Zero, Tiny(5), Tiny(10), Tiny(MaxTiny), Half, One, Two}

NormalizeEcCalls == [fn : {"normalize_ec"}, ec : SeqsOf(EcEntries, 1, MaxLen)]

BatchIndexes == {0, 4}

BatchValues == {F(-1), Zero, Half, One, F(3)}

BatchTinyValues == {Zero, Tiny(4), Tiny(6), Tiny(10), Tiny(MaxTiny)}

NormalizeGvCalls ==
    [fn : {"normalize_graph_values"},
     gvs : SeqsOf(BatchIndexes \X BatchValues, 0, MaxLen)
           \cup SeqsOf(BatchIndexes \X BatchTinyValues, 0, MaxLen)]

Calls ==
    UpdateCalls \cup MutualCalls \cup GraphValueCalls \cup PerformanceCalls
    \cup NormalizeEcCalls \cup NormalizeGvCalls

Init ==
    /\ call \in Calls /\ returned = FALSE /\ ret = <<>>
    /\ NoPowerIteration /\ NoMain

Return(v) == ret' = v /\ returned' = TRUE /\ UNCHANGED <<call, powerVars, mainVars>>

CallUpdateReputation ==
    /\ ~returned /\ call.fn = "update_reputation"
    /\ Return(update_reputation(call.current_reputation, call.num_transactions,
                                call.reviewer_graph_value, call.rating))

CallMutualUpdate ==
    /\ ~returned /\ call.fn = "mutual_update"
    /\ Return(mutual_update(call.producer_rep, call.producer_tx_count,
                            call.producer_graph_value, call.producer_rates_buyer,
                            call.buyer_rep, call.buyer_tx_count,
                            call.buyer_graph_value, call.buyer_rates_producer))

CallGraphValue ==
    /\ ~returned /\ call.fn = "graph_value"
    /\ Return(graph_value(call.total_weight, call.normalized_ec, call.raw_ec,
                          call.reputation))

CallPerformanceMultiplier ==
    /\ ~returned /\ call.fn = "performance_multiplier"
    /\ Return(performance_multiplier(call.delta_g, call.delta_w, call.average_ratio))

CallNormalizeEc ==
    /\ ~returned /\ call.fn = "normalize_ec"
    /\ Return(normalize_ec(call.ec))

CallNormalizeGraphValues ==
    /\ ~returned /\ call.fn = "normalize_graph_values"
    /\ Return(normalize_graph_values(call.gvs))

Next ==
    \/ CallUpdateReputation
    \/ CallMutualUpdate
    \/ CallGraphValue
    \/ CallPerformanceMultiplier
    \/ CallNormalizeEc
    \/ CallNormalizeGraphValues

Spec == Init /\ [][Next]_vars

(***************************************************************************)
(* src/src/main.rs.  The centrality of the driver's matrix is irrational   *)
(* and its graph values are irrational powers, so the driver is run for    *)
(* every centrality vector of a bounded family on which powf is exact, in  *)
(* place of the one vector power_iteration returns.                        *)
(***************************************************************************)
adjacency_matrix ==
    << <<Zero,  F(20), Two,        Zero,  Zero>>,
       <<F(20), Zero,  Q(3, 2, 0), F(3),  Zero>>,
       <<Two,   Q(3, 2, 0), Zero,  Zero,  Q(5, 2, 0)>>,
       <<Zero,  F(3),  Zero,       Zero,  One>>,
       <<Zero,  Two,   Q(5, 2, 0), One,   Zero>> >>

Nodes == 0..(Len(adjacency_matrix) - 1)

\* the closure compute_gv, over the ec and norm_ec of main
compute_gv(user, reps) ==
    LET w == total_weight(adjacency_matrix, user)
    IN  graph_value(w, norm_ec[user + 1], ec[user + 1], reps[user + 1])

\* one transaction block of main with its tx_counts[producer] += 1 left out
rate_uncounted(buyer, producer, rating) ==
    LET buyer_gv == compute_gv(buyer, reputations)
    IN  /\ reputations' =
               [reputations EXCEPT ![producer + 1] =
                   update_reputation(reputations[producer + 1], tx_counts[producer + 1],
                                     buyer_gv, rating)]
        /\ tx_counts' = tx_counts
        /\ log' = Append(log, [buyer |-> buyer, producer |-> producer, rating |-> rating,
                               buyer_gv |-> buyer_gv, n |-> tx_counts[producer + 1]])

\* one transaction block of main: the buyer rates the producer
rate(buyer, producer, rating) ==
    LET buyer_gv == compute_gv(buyer, reputations)
    IN  /\ reputations' =
               [reputations EXCEPT ![producer + 1] =
                   update_reputation(reputations[producer + 1], tx_counts[producer + 1],
                                     buyer_gv, rating)]
        /\ tx_counts' = [tx_counts EXCEPT ![producer + 1] = tx_counts[producer + 1] + 1]
        /\ log' = Append(log, [buyer |-> buyer, producer |-> producer, rating |-> rating,
                               buyer_gv |-> buyer_gv, n |-> tx_counts[producer + 1]])

\* let producer = 4
producer_of_main == 4

Transaction1 ==
    /\ stage = 0
    /\ rate(2, producer_of_main, F(5))
    /\ stage' = 1
    /\ UNCHANGED <<ec, norm_ec, callVars, powerVars>>

Transaction2 ==
    /\ stage = 1
    /\ rate(3, producer_of_main, F(5))
    /\ stage' = 2
    /\ UNCHANGED <<ec, norm_ec, callVars, powerVars>>

Transaction3 ==
    /\ stage = 2
    /\ rate(1, producer_of_main, F(5))
    /\ stage' = 3
    /\ UNCHANGED <<ec, norm_ec, callVars, powerVars>>

EcValues == {Zero, Q(1, 4, 0), Half, One}

\* graph_value of the node is exact for this centrality vector
GvExact(e, node) ==
    \/ QLe(e[node + 1], Zero)
    \/ /\ QPowDefined(total_weight(adjacency_matrix, node), normalize_ec(e)[node + 1])
       /\ QPowDefined(e[node + 1], QSub(One, normalize_ec(e)[node + 1]))

EcFamily == {e \in [1..Len(adjacency_matrix) -> EcValues] : \A node \in Nodes : GvExact(e, node)}

\* main up to its first transaction
InitMainWith(family) ==
    /\ ec \in family
    /\ norm_ec = normalize_ec(ec)
    /\ reputations = [k \in 1..Len(adjacency_matrix) |-> R_MIN]
    /\ tx_counts = [k \in 1..Len(adjacency_matrix) |-> 0]
    /\ log = <<>>
    /\ NoCall /\ NoPowerIteration

InitMain == InitMainWith(EcFamily) /\ stage = 0

NextMain == Transaction1 \/ Transaction2 \/ Transaction3

SpecMain == InitMain /\ [][NextMain]_vars

(***************************************************************************)
(* Rating events in any order: the transaction block of main applied to    *)
(* any pair of trading partners, with a low or a high rating.              *)
(***************************************************************************)
Partners(a, b) ==
    /\ a # b
    /\ \/ QLt(Zero, adjacency_matrix[a + 1][b + 1])
       \/ QLt(Zero, adjacency_matrix[b + 1][a + 1])

EventRatings == {Zero, F(5)}

\* centralities in which the two heaviest nodes are the most central
RatingsEcFamily == {e \in EcFamily : e[1] = Half /\ e[2] = Half}

RatingEvent ==
    /\ stage = -1
    /\ Len(log) < MaxCount
    /\ \E buyer \in Nodes, producer \in Nodes, rating \in EventRatings :
          /\ Partners(buyer, producer)
          /\ rate(buyer, producer, rating)
    /\ UNCHANGED <<ec, norm_ec, stage, callVars, powerVars>>

InitRatings == InitMainWith(RatingsEcFamily) /\ stage = -1

NextRatings == RatingEvent

SpecRatings == InitRatings /\ [][NextRatings]_vars

(***************************************************************************)
(* Claims about the pure functions, checked under Spec.                    *)
(***************************************************************************)
Returned(fn) == returned /\ call.fn = fn

\* the rating brought into [0.1, 5.0], written out
ClampedRating(rating) ==
    IF QLt(rating, Q(1, 10, 0)) THEN Q(1, 10, 0)
    ELSE IF QLt(Q(5, 1, 0), rating) THEN Q(5, 1, 0)
    ELSE rating

\* C1 as stated: with a prior transaction count of 0, update_reputation
\* returns exactly clamp(rating), whatever the reputation and graph value.
C1_FirstRatingIsClampedRating ==
    (Returned("update_reputation") /\ call.num_transactions = 0)
        => QEq(ret, ClampedRating(call.rating))

\* C1 amended: with a prior transaction count of 0, update_reputation returns
\* exactly reviewer_graph_value * clamp(rating), whatever the reputation.
C1_FirstRatingIsWeightedClampedRating ==
    (Returned("update_reputation") /\ call.num_transactions = 0)
        => QEq(ret, QMul(call.reviewer_graph_value, ClampedRating(call.rating)))

C1_Witness ==
    /\ Returned("update_reputation") /\ call.num_transactions = 0
    /\ call.reviewer_graph_value = Half /\ call.rating = F(7)
    /\ call.current_reputation = F(3)
    /\ ret = Q(5, 2, 0)

\* |delta_w| < 1e-15
DeltaWSmall == QLt(QAbs(call.delta_w), Q(1, 1, -15))

UserRatio == QDiv(call.delta_g, call.delta_w)

\* C2 as stated: performance_multiplier returns 0 when |delta_w| < 1e-15,
\* returns 1 when delta_w is not that small and the user ratio and the
\* average ratio are each within 1e-15 of zero, and never returns a
\* negative value.
C2_MultiplierGuardsEachRatio ==
    Returned("performance_multiplier") =>
        /\ DeltaWSmall => QEq(ret, Zero)
        /\ (/\ ~DeltaWSmall
            /\ QLt(QAbs(UserRatio), Q(1, 1, -15))
            /\ QLt(QAbs(call.average_ratio), Q(1, 1, -15))) => QEq(ret, One)
        /\ QLe(Zero, ret)

\* C2 amended: performance_multiplier returns 0 when |delta_w| < 1e-15,
\* returns 1 when delta_w is not that small and |user ratio| + |average
\* ratio| < 1e-15, and never returns a negative value.
C2_MultiplierGuardsRatioSum ==
    Returned("performance_multiplier") =>
        /\ DeltaWSmall => QEq(ret, Zero)
        /\ (/\ ~DeltaWSmall
            /\ QLt(QAdd(QAbs(UserRatio), QAbs(call.average_ratio)), Q(1, 1, -15)))
               => QEq(ret, One)
        /\ QLe(Zero, ret)

C2_Witness ==
    /\ Returned("performance_multiplier")
    /\ call.delta_w = One /\ call.delta_g = Tiny(6) /\ call.average_ratio = Tiny(-3)
    /\ ret = One

NonNegative(v) == \A k \in 1..Len(v) : QLe(Zero, v[k])

\* the vector's maximum is 1.0 and every entry lies in [0, 1]
MaxIsOne(v) ==
    /\ \E k \in 1..Len(v) : QEq(v[k], One)
    /\ \A k \in 1..Len(v) : QLe(Zero, v[k]) /\ QLe(v[k], One)

\* C3 as stated: for a non-negative vector whose maximum is positive,
\* normalize_ec returns a vector with maximum exactly 1.0 and entries in
\* [0, 1]; when the maximum is below 1e-15 it returns the vector unchanged.
C3_PositiveMaxNormalizedToOne ==
    (Returned("normalize_ec") /\ NonNegative(call.ec)) =>
        /\ (\E k \in 1..Len(call.ec) : QLt(Zero, call.ec[k])) => MaxIsOne(ret)
        /\ (\A k \in 1..Len(call.ec) : QLt(call.ec[k], Q(1, 1, -15))) => ret = call.ec

\* C3 amended: for a non-negative vector whose maximum is at least 1e-15,
\* normalize_ec returns a vector with maximum exactly 1.0 and entries in
\* [0, 1]; when the maximum is below 1e-15 it returns the vector unchanged.
C3_MaxAboveGuardNormalizedToOne ==
    (Returned("normalize_ec") /\ NonNegative(call.ec)) =>
        /\ (\E k \in 1..Len(call.ec) : QLe(Q(1, 1, -15), call.ec[k])) => MaxIsOne(ret)
        /\ (\A k \in 1..Len(call.ec) : QLt(call.ec[k], Q(1, 1, -15))) => ret = call.ec

C3_Witness ==
    /\ Returned("normalize_ec")
    /\ call.ec = <<Half, Two, Tiny(5)>>
    /\ ret = <<Q(1, 4, 0), One, Q(5, 2, -16)>>

BatchTotal == QSum([k \in 1..Len(call.gvs) |-> call.gvs[k][2]])

SameIndexes ==
    /\ Len(ret) = Len(call.gvs)
    /\ \A k \in 1..Len(ret) : ret[k][1] = call.gvs[k][1]

SharesSumToOne == QEq(QSum([k \in 1..Len(ret) |-> ret[k][2]]), One)

SharesAllZero == \A k \in 1..Len(ret) : QEq(ret[k][2], Zero)

\* C4 as stated: the outputs of normalize_graph_values sum to 1.0 when the
\* input sum exceeds 1e-15 and are all 0 otherwise, with the input's
\* indexes in the input's order.
C4_SharesSumToOneAboveGuard ==
    Returned("normalize_graph_values") =>
        /\ IF QLt(Q(1, 1, -15), BatchTotal) THEN SharesSumToOne ELSE SharesAllZero
        /\ SameIndexes

\* C4 amended: the outputs of normalize_graph_values sum to 1.0 when the
\* input sum is at least 1e-15 and are all 0 when it is below 1e-15, with
\* the input's indexes in the input's order.
C4_SharesSumToOneFromGuard ==
    Returned("normalize_graph_values") =>
        /\ IF QLt(BatchTotal, Q(1, 1, -15)) THEN SharesAllZero ELSE SharesSumToOne
        /\ SameIndexes

C4_Witness ==
    /\ Returned("normalize_graph_values")
    /\ call.gvs = <<<<4, Tiny(4)>>, <<0, Tiny(6)>>>>
    /\ ret = <<<<4, Q(2, 5, 0)>>, <<0, Q(3, 5, 0)>>>>

\* both parties of a mutual_update in the same state, given the same rating
SameReviewee ==
    /\ call.producer_rep = call.buyer_rep
    /\ call.producer_tx_count = call.buyer_tx_count
    /\ call.producer_rates_buyer = call.buyer_rates_producer

\* |new reputation - old reputation|
Shift(new) == QAbs(QSub(new, call.buyer_rep))

AllPositive ==
    /\ QLt(Zero, call.total_weight) /\ QLt(Zero, call.raw_ec)
    /\ QLt(Zero, call.reputation)

\* C9: graph_value returns exactly 0 when total_weight <= 0 or raw_ec <= 0 or
\* reputation <= 0, for every normalized_ec; for positive total_weight,
\* raw_ec and reputation it returns total_weight * reputation when
\* normalized_ec is 1 and raw_ec * reputation when normalized_ec is 0, both
\* non-zero.
C9_GraphValueGuardAndBoundaries ==
    Returned("graph_value") =>
        /\ ~AllPositive => ret = Zero
        /\ (AllPositive /\ QEq(call.normalized_ec, One)) =>
               /\ QEq(ret, QMul(call.total_weight, call.reputation))
               /\ ~QEq(ret, Zero)
        /\ (AllPositive /\ QEq(call.normalized_ec, Zero)) =>
               /\ QEq(ret, QMul(call.raw_ec, call.reputation))
               /\ ~QEq(ret, Zero)

C9_Witness ==
    /\ Returned("graph_value")
    /\ call.total_weight = Two /\ call.normalized_ec = One
    /\ call.raw_ec = Q(1, 4, 0) /\ call.reputation = R_MAX
    /\ ret = F(10)

(***************************************************************************)
(* Claims about power_iteration, checked under SpecPower.                  *)
(***************************************************************************)
ZeroMatrix == \A i, j \in 1..Len(matrix) : matrix[i][j] = 0

\* the loop is left by one of its two breaks or because its range is used up
LeavesLoopFor ==
    \/ iterations = 1000 /\ iterations' = iterations /\ x' = x
    \/ /\ iterations' = iterations + 1
       /\ norm_small(matrix_squared, x)
       /\ x' = x
    \/ /\ iterations' = iterations + 1
       /\ ~norm_small(matrix_squared, x)
       /\ x' = normalized(matrix_squared, x)
       /\ diff_small(x, x')

\* passes and steps still ahead of the call: every step lowers it
StepsLeft ==
    IF pc = "loop" THEN 2 + (1000 - iterations)
    ELSE IF pc = "return" THEN 1
    ELSE 0

\* C8: power_iteration terminates for every input matrix after at most 1000
\* passes of its loop (before the return some step can always be taken, and
\* every step lowers the count of steps left); it leaves the loop early only when the
\* norm of the new iterate is below 1e-15 or the distance between successive
\* normalized iterates is below 1e-10; for the all-zero matrix it leaves in
\* the first pass and returns the initial all-ones vector.
C8_PowerIterationTerminates ==
    /\ [](iterations <= 1000 /\ StepsLeft >= 0)
    /\ [](pc # "done" =>
              (NormBreaks \/ DiffBreaks \/ Continues \/ Exhausted \/ pc = "return"))
    /\ [][StepsLeft' < StepsLeft]_vars
    /\ [][(pc = "loop" /\ pc' = "return") => LeavesLoopFor]_vars
    /\ []((pc = "done" /\ ZeroMatrix) =>
              (iterations = 1 /\ x = [v |-> [k \in 1..Len(matrix) |-> 1], unit |-> FALSE]))

C8_Witness ==
    /\ pc = "done" /\ iterations = 1000 /\ ~ZeroMatrix
    /\ x.unit

(***************************************************************************)
(* Claims about the driver, checked under SpecMain and SpecRatings.        *)
(***************************************************************************)
ColumnSum(weights, node) == QSum([k \in 1..Len(weights) |-> weights[k][node + 1]])

\* C5: the 5-node adjacency matrix of the driver is symmetric, non-negative
\* and has a zero diagonal, so for every node the value total_weight returns
\* (the sum of the node's row) equals the sum of the weights of the edges
\* incident to the node (the sum of the node's column).
C5_MatrixSymmetricRowSumIsColumnSum ==
    stage >= 0 =>
        /\ \A i, j \in Nodes :
              /\ QEq(adjacency_matrix[i + 1][j + 1], adjacency_matrix[j + 1][i + 1])
              /\ QLe(Zero, adjacency_matrix[i + 1][j + 1])
        /\ \A i \in Nodes : QEq(adjacency_matrix[i + 1][i + 1], Zero)
        /\ \A node \in Nodes :
              QEq(total_weight(adjacency_matrix, node), ColumnSum(adjacency_matrix, node))

\* ratings applied to the node among the first k events
RatingsReceived(node, k) == Cardinality({j \in 1..k : log[j].producer = node})

\* the step applies one rating: the reviewee's count goes up by one and its
\* reputation becomes update_reputation(reputation, ratings already applied
\* to it, graph value of the reviewer, rating); every other node keeps its
\* count and its reputation
AppliesOneRating ==
    /\ Len(log') = Len(log) + 1
    /\ LET event == log'[Len(log')]
           p == event.producer + 1
       IN  /\ tx_counts'[p] = tx_counts[p] + 1
           /\ reputations'[p] =
                  update_reputation(reputations[p], RatingsReceived(event.producer, Len(log)),
                                    compute_gv(event.buyer, reputations), event.rating)
           /\ \A k \in 1..Len(tx_counts) :
                  k # p => (tx_counts'[k] = tx_counts[k] /\ reputations'[k] = reputations[k])

\* C6: in the driver's sequence of rating events a node's transaction count
\* starts at 0, never decreases and goes up exactly once per rating the node
\* receives; the count passed to update_reputation is the number of ratings
\* already applied to the reviewee; the event leaves the counts and
\* reputations of all other nodes, the reviewer included, unchanged.
C6_CountIsRatingsReceived ==
    /\ [](\A node \in Nodes :
              tx_counts[node + 1] = RatingsReceived(node, Len(log)))
    /\ [](\A k \in 1..Len(log) : log[k].n = RatingsReceived(log[k].producer, k - 1))
    /\ [][\A k \in 1..Len(tx_counts) : tx_counts'[k] >= tx_counts[k]]_vars
    /\ [][AppliesOneRating]_vars

C6_Witness ==
    /\ stage = 3
    /\ tx_counts = <<0, 0, 0, 0, 3>>
    /\ \A k \in 1..4 : reputations[k] = R_MIN
    /\ QLt(R_MIN, reputations[5])
    /\ log[3].buyer = 1 /\ log[3].n = 2 /\ QLt(Zero, log[3].buyer_gv)

\* every node that has acted as reviewer has total weight > 0 and raw
\* centrality > 0
ReviewersConnected ==
    \A k \in 1..Len(log) :
        /\ QLt(Zero, total_weight(adjacency_matrix, log[k].buyer))
        /\ QLt(Zero, ec[log[k].buyer + 1])

\* C10: from every reputation at R_MIN, under any sequence of rating events,
\* every reputation stays strictly positive, and so no graph value is zeroed
\* through reputation, provided every node that has acted as reviewer has
\* total weight > 0 and raw centrality > 0; a reviewer whose graph value is 0
\* sets the reputation of a node with count 0 to exactly 0.
C10_ReputationStaysPositive ==
    stage = -1 =>
        /\ ReviewersConnected =>
               \A node \in Nodes :
                   /\ QLt(Zero, reputations[node + 1])
                   /\ (/\ QLt(Zero, total_weight(adjacency_matrix, node))
                       /\ QLt(Zero, ec[node + 1]))
                          => QLt(Zero, compute_gv(node, reputations))
        /\ (/\ Len(log) > 0
            /\ QEq(log[Len(log)].buyer_gv, Zero)
            /\ log[Len(log)].n = 0)
               => reputations[log[Len(log)].producer + 1] = Zero

C10_Witness ==
    /\ stage = -1 /\ Len(log) = 2 /\ ReviewersConnected
    /\ \E node \in Nodes : ec[node + 1] = Zero
    /\ log[1].producer = log[2].producer
    /\ QLt(reputations[log[2].producer + 1], R_MIN)

\* a reviewer without centrality has zeroed a first-time reviewee
C10_ZeroedReputationReached ==
    /\ stage = -1 /\ Len(log) > 0
    /\ QEq(log[Len(log)].buyer_gv, Zero) /\ log[Len(log)].n = 0
    /\ reputations[log[Len(log)].producer + 1] = Zero

====
